---------------------------- MODULE Spec2Model ----------------------------
(***************************************************************************)
(* Model of the buddy allocator of src/src/buddy.rs (Buddy<T>, Handle<T>). *)
(*                                                                         *)
(* The allocator is a flat binary tree of i8 cells (alloc_tree), a         *)
(* min_order and a storage buffer of STRIDE * capacity bytes.  Handles are *)
(* node indices; a Handle is neither Clone nor Copy and free consumes it,  *)
(* so the handles a program holds form a bag (live) from which free takes  *)
(* one occurrence.                                                         *)
(***************************************************************************)
EXTENDS Integers, Sequences, FiniteSets, Bags, TLC

(***************************************************************************)
(* Bounds of the model.                                                    *)
(***************************************************************************)
\* usize is modelled UsizeBits wide, so that lengths beyond half the word
\* (where next_power_of_two overflows) can be explored by TLC.
UsizeBits == 8
\* min_order arguments 0..MaxMinOrder are tried, next to the out-of-range ones.
MaxMinOrder == 4
\* Handles a program holds at the same time.
MaxLive == 3
\* Calls in a run of consecutive minimum-size allocations.
MaxRun == 10
\* Quads in an input mesh of greedy2d, and the rows and columns they start in.
MaxQuads == 3
MaxRow == 2
MaxCol == 1

(***************************************************************************)
(* Program constants.                                                      *)
(***************************************************************************)
\* const USED: i8 = i8::MIN
USED == -128
\* min_order is a u8: u8 arithmetic wraps modulo U8Modulus in release builds.
U8Modulus == 256

\* The value index 0 is initialised with (i8::MIN).
Reserved == USED
\* A cell of the tree that construction never wrote (outside the i8 range).
Uninit == USED - 1

Builds == {"debug", "release"}

(***************************************************************************)
(* Integer helpers of the Rust standard library, as the code uses them.    *)
(***************************************************************************)
Max(a, b) == IF a >= b THEN a ELSE b

\* usize::ilog2 for n >= 1 (it panics on 0; callers below check that first).
RECURSIVE ilog2(_)
ilog2(n) == IF n <= 1 THEN 0 ELSE 1 + ilog2(n \div 2)

\* usize::next_power_of_two when the result fits the word: the smallest power
\* of two >= n, and 1 for n = 0.
RECURSIVE PowerAtLeast(_, _)
PowerAtLeast(p, n) == IF p >= n THEN p ELSE PowerAtLeast(2 * p, n)

next_power_of_two(n) == PowerAtLeast(1, n)

\* The result of next_power_of_two does not fit usize: the call panics in a
\* debug build and yields 0 in a release build.
next_power_of_two_overflows(n) == n > 2 ^ (UsizeBits - 1)

\* `x as i8` of a u8.
AsI8(x) == IF x >= 128 THEN x - U8Modulus ELSE x

(***************************************************************************)
(* The tree: a function 0 .. len-1 -> i8.                                  *)
(***************************************************************************)
TreeLen(tree) == Cardinality(DOMAIN tree)

NoTree == [i \in {} |-> Reserved]

\* Buddy::capacity
capacity(tree, m) == (TreeLen(tree) \div 2) * 2 ^ m

\* Buddy::max_order
max_order(tree, m) == ilog2(capacity(tree, m))

\* FillLevels with a fill that stops at the end of the tree instead of
\* panicking on the slice index.
RECURSIVE FillLevels_clipped(_, _, _, _, _)
FillLevels_clipped(tree, level, last_level, maxo, build) ==
    IF level > last_level \/ 2 ^ (level + 1) > TreeLen(tree)
    THEN [panic |-> FALSE, tree |-> tree]
    ELSE LET order == (maxo - level) % U8Modulus
             filled == [i \in DOMAIN tree |->
                          IF 2 ^ level <= i /\ i < 2 ^ (level + 1)
                          THEN AsI8(order) ELSE tree[i]]
         IN  FillLevels_clipped(filled, level + 1, last_level, maxo, build)

\* FillLevels over the levels 0 .. last_level - 1 only: the deepest level is
\* left as allocated.
RECURSIVE FillLevels_exclusive(_, _, _, _, _)
FillLevels_exclusive(tree, level, last_level, maxo, build) ==
    IF level >= last_level THEN [panic |-> FALSE, tree |-> tree]
    ELSE IF build = "debug" /\ level > maxo THEN [panic |-> TRUE, tree |-> NoTree]
    ELSE IF 2 ^ (level + 1) > TreeLen(tree) THEN [panic |-> TRUE, tree |-> NoTree]
    ELSE LET order == (maxo - level) % U8Modulus
             filled == [i \in DOMAIN tree |->
                          IF 2 ^ level <= i /\ i < 2 ^ (level + 1)
                          THEN AsI8(order) ELSE tree[i]]
         IN  FillLevels_exclusive(filled, level + 1, last_level, maxo, build)

\* The loop of Buddy::new from `level` on: fills tree[1 << level .. 2 << level]
\* with max_order - level.  The slice index panics when the range passes the
\* end of the tree; `max_order - level` panics on overflow in a debug build
\* and wraps in a release build.
RECURSIVE FillLevels(_, _, _, _, _)
FillLevels(tree, level, last_level, maxo, build) ==
    IF level > last_level THEN [panic |-> FALSE, tree |-> tree]
    ELSE IF build = "debug" /\ level > maxo THEN [panic |-> TRUE, tree |-> NoTree]
    ELSE IF 2 ^ (level + 1) > TreeLen(tree) THEN [panic |-> TRUE, tree |-> NoTree]
    ELSE LET order == (maxo - level) % U8Modulus
             filled == [i \in DOMAIN tree |->
                          IF 2 ^ level <= i /\ i < 2 ^ (level + 1)
                          THEN AsI8(order) ELSE tree[i]]
         IN  FillLevels(filled, level + 1, last_level, maxo, build)

\* Buddy::new: the tree it builds, or a panic.
new(cap_arg, m, build) ==
    LET cap       == next_power_of_two(cap_arg)
        maxo      == ilog2(cap)
        \* (2 * capacity) >> min_order: a shift by >= the word width panics in
        \* a debug build and is masked to the width in a release build.
        num_nodes == (2 * cap) \div 2 ^ (m % UsizeBits)
        uninit    == [i \in 0 .. num_nodes - 1 |-> Uninit]
        \* max_order - min_order in u8
        last      == (maxo - m) % U8Modulus
        filled    == FillLevels(uninit, 0, last, maxo, build)
    IN  IF build = "debug" /\ (m >= UsizeBits \/ m > maxo)
        THEN [panic |-> TRUE, tree |-> NoTree]
        ELSE IF filled.panic \/ num_nodes = 0
        THEN [panic |-> TRUE, tree |-> NoTree]
        ELSE [panic |-> FALSE, tree |-> [filled.tree EXCEPT ![0] = Reserved]]

\* update_parents without the +1 for equal children.
RECURSIVE update_parents_no_merge(_, _)
update_parents_no_merge(tree, block) ==
    IF block <= 1 THEN tree
    ELSE LET a         == tree[block]
             b         == tree[IF block % 2 = 0 THEN block + 1 ELSE block - 1]
             parent    == block \div 2
             old_value == tree[parent]
             new_value == Max(a, b)
             stored    == [tree EXCEPT ![parent] = new_value]
         IN  IF old_value = new_value THEN stored
             ELSE update_parents_no_merge(stored, parent)

\* Buddy::update_parents
RECURSIVE update_parents(_, _)
update_parents(tree, block) ==
    IF block <= 1 THEN tree
    ELSE LET a         == tree[block]
             b         == tree[IF block % 2 = 0 THEN block + 1 ELSE block - 1]
             merge     == (a = b)
             parent    == block \div 2
             old_value == tree[parent]
             new_value == Max(a, b) + (IF merge THEN 1 ELSE 0)
             stored    == [tree EXCEPT ![parent] = new_value]
         IN  IF old_value = new_value THEN stored
             ELSE update_parents(stored, parent)

\* target_order without rounding len up to a power of two first.
target_order_floor(len, m) == Max(ilog2(len), m)

\* target_order of Buddy::alloc, for a len whose next power of two fits.
target_order(len, m) == Max(ilog2(next_power_of_two(len)), m)

\* Step taking the right child whenever it is suitable.
Step_prefer_right(tree, block, target) ==
    LET right    == 2 * block + 1
        suitable == tree[right] >= target
    IN  IF suitable THEN right ELSE right - 1

\* One step of the descent of Buddy::alloc: the child of `block` it moves to.
Step(tree, block, target) ==
    LET left     == 2 * block
        suitable == tree[left] >= target
    IN  IF suitable THEN left ELSE left + 1

\* The walk down the tree of Buddy::alloc, levels_down levels from block.
RECURSIVE Descend(_, _, _, _)
Descend(tree, block, levels_down, target) ==
    IF levels_down = 0 THEN block
    ELSE Descend(tree, Step(tree, block, target), levels_down - 1, target)

\* alloc with the early exit taken also when the root's value equals the
\* target order.
alloc_root_le(tree, m, len) ==
    IF next_power_of_two_overflows(len)
    THEN [panic |-> TRUE, handle |-> 0, tree |-> tree]
    ELSE LET target == target_order(len, m) IN
         IF tree[1] <= target
         THEN [panic |-> FALSE, handle |-> 0, tree |-> tree]
         ELSE LET levels_down == max_order(tree, m) - target
                  block       == Descend(tree, 1, levels_down, target)
                  claimed     == [tree EXCEPT ![block] = USED]
              IN  [panic |-> FALSE, handle |-> block,
                   tree |-> update_parents(claimed, block)]

\* Buddy::alloc: [panic, handle (0 is None), tree].
alloc(tree, m, len) ==
    IF next_power_of_two_overflows(len)
    THEN \* debug: next_power_of_two panics; release: it yields 0 and
         \* 0.ilog2() panics
         [panic |-> TRUE, handle |-> 0, tree |-> tree]
    ELSE LET target == target_order(len, m) IN
         IF tree[1] < target
         THEN [panic |-> FALSE, handle |-> 0, tree |-> tree]
         ELSE LET levels_down == max_order(tree, m) - target
                  block       == Descend(tree, 1, levels_down, target)
                  claimed     == [tree EXCEPT ![block] = USED]
              IN  [panic |-> FALSE, handle |-> block,
                   tree |-> update_parents(claimed, block)]

\* free that marks the block free and leaves its ancestors as they are.
free_without_update(tree, m, block) ==
    LET order == max_order(tree, m) - ilog2(block)
    IN  [tree EXCEPT ![block] = order]

\* free storing one order too many in the freed node.
free_order_plus_one(tree, m, block) ==
    LET order == max_order(tree, m) - ilog2(block) + 1
    IN  update_parents([tree EXCEPT ![block] = order], block)

\* Buddy::free
free(tree, m, block) ==
    LET order == max_order(tree, m) - ilog2(block)
    IN  update_parents([tree EXCEPT ![block] = order], block)

\* The element offset Buddy::write computes for a handle and hands to
\* write_buffer as its byte offset.
write_offset(tree, m, block) ==
    LET order == max_order(tree, m) - ilog2(block)
        bias  == 2 ^ ilog2(block)
    IN  (block - bias) * 2 ^ order

\* queue.write_buffer(buffer, offset, blob): the bytes of blob replace those
\* of the buffer from offset on.
write_buffer(buffer, offset, blob) ==
    [i \in DOMAIN buffer |->
        IF offset <= i /\ i < offset + Len(blob) THEN blob[i - offset + 1]
        ELSE buffer[i]]

\* bytemuck::cast_slice(data): the bytes of n elements of `bytes` bytes each;
\* the model's payloads repeat one byte value.
cast_slice(n, bytes, value) == [i \in 1 .. n * bytes |-> value]

\* Buddy::check_is_same from index i on: "true", "false", or "panic" when the
\* index passes the end of other's tree.
RECURSIVE SameFrom(_, _, _)
SameFrom(self_tree, other, i) ==
    IF i >= TreeLen(self_tree) THEN "true"
    ELSE IF i >= TreeLen(other) THEN "panic"
    ELSE IF self_tree[i] # other[i] THEN "false"
    ELSE SameFrom(self_tree, other, i + 1)

check_is_same(self_tree, other) == SameFrom(self_tree, other, 0)

(***************************************************************************)
(* greedy2d, the merge of one-row quads into taller ones.  It exists       *)
(* twice: main.rs works on struct Quad, greedy.rs on the packed QuadRef.   *)
(* A quad is the record of its fields in both; QuadRef's bit fields are    *)
(* read with the masks the code uses (5 bits each for x, y, width and      *)
(* height; z and sky exposure take no part in greedy2d).                   *)
(***************************************************************************)
U16Modulus == 2 ^ 16
\* u64 arithmetic of greedy.rs, with the scaled word
U64Modulus == 2 ^ UsizeBits
\* 0x1F, the mask of a 5-bit field
FieldMask == 31
FieldModulus == FieldMask + 1

Quad(color, x0, y0, width, height) ==
    [color |-> color, x0 |-> x0, y0 |-> y0, width |-> width, height |-> height]

\* quad_ref(offset, (x, y, 0), 0, width, height) of greedy.rs: the fields
\* are masked to 5 bits.
quad_ref(offset, x, y, width, height) ==
    Quad(offset, x % FieldModulus, y % FieldModulus,
         width % FieldModulus, height % FieldModulus)

MeshLen(mesh) == Cardinality(DOMAIN mesh)

\* a - b on unsigned integers of the given modulus: a panic on overflow in
\* a debug build, the wrapped difference in a release build.
checked_sub(a, b, modulus, build) ==
    IF a >= b THEN [panic |-> FALSE, value |-> a - b]
    ELSE IF build = "debug" THEN [panic |-> TRUE, value |-> 0]
    ELSE [panic |-> FALSE, value |-> (a - b) % modulus]

\* l.y0 - b.y0 - b.height, left to right
DeltaY(ly0, by0, bh, modulus, build) ==
    LET first == checked_sub(ly0, by0, modulus, build)
    IN  IF first.panic THEN first
        ELSE checked_sub(first.value, bh, modulus, build)

\* What one pass through the loop body leaves: where control is ("loop":
\* back at the head of the loop, "exit": the loop is left, "panicked",
\* "ub": an unchecked access past the end of the vector), the mesh, the
\* cursors, and the indices used with get_unchecked / get_unchecked_mut.
Outcome(at, mesh, dest, back, lead, unchecked) ==
    [at |-> at, mesh |-> mesh, dest |-> dest, back |-> back, lead |-> lead,
     unchecked |-> unchecked]

\* The outcome of a pass that uses the indices `used` unchecked: undefined
\* behaviour when one of them is past the end, else `outcome`.
Unchecked(mesh, dest, back, lead, used, outcome) ==
    IF \E i \in used : i >= MeshLen(mesh)
    THEN Outcome("ub", mesh, dest, back, lead, used)
    ELSE outcome

\* `*d = b; dest += 1; back += 1`
Emit(mesh, dest, back, lead, used) ==
    Unchecked(mesh, dest, back, lead, used,
              Outcome("loop", [mesh EXCEPT ![dest] = mesh[back]], dest + 1, back + 1, lead, used))

\* One pass through the body of `loop` of greedy2d in main.rs.
greedy2d_main(mesh, dest, back, lead, build) ==
    IF lead = MeshLen(mesh)
    THEN IF back # lead
         THEN Emit(mesh, dest, back, lead, {dest, back})
         ELSE Outcome("exit", mesh, dest, back, lead, {})
    ELSE LET used == {back, lead, dest} IN
         Unchecked(mesh, dest, back, lead, used,
            LET b  == mesh[back]
                l  == mesh[lead]
                dy == DeltaY(l.y0, b.y0, b.height, U16Modulus, build)
                \* b.height + 1 in u8
                new_height == b.height + 1
                new_y0 == checked_sub(l.y0, new_height % U8Modulus, U16Modulus, build)
            IN  IF dy.panic THEN Outcome("panicked", mesh, dest, back, lead, used)
                ELSE IF dy.value = 0 THEN Outcome("loop", mesh, dest, back, lead + 1, used)
                ELSE IF dy.value > 1 THEN Emit(mesh, dest, back, lead, used)
                ELSE IF b.x0 > l.x0 THEN Outcome("loop", mesh, dest, back, lead + 1, used)
                ELSE IF l.x0 > b.x0 THEN Emit(mesh, dest, back, lead, used)
                ELSE IF b.width = l.width
                THEN IF (new_height >= U8Modulus /\ build = "debug") \/ new_y0.panic
                     THEN Outcome("panicked", mesh, dest, back, lead, used)
                     ELSE Outcome("loop",
                                  [mesh EXCEPT ![lead].y0 = new_y0.value,
                                               ![lead].height = new_height % U8Modulus],
                                  dest, back + 1, lead + 1, used)
                ELSE Emit(mesh, dest, back, lead, used))

\* extend_quad_ref_h: 1 << 56 added to the packed quad.  The height field is
\* the low 5 bits of what is kept here as height, bits 56 .. 63 of the word.
extend_quad_ref_h(q, build) ==
    IF q.height + 1 >= U8Modulus
    THEN [panic |-> build = "debug", value |-> [q EXCEPT !.height = 0]]
    ELSE [panic |-> FALSE, value |-> [q EXCEPT !.height = q.height + 1]]

\* One test of `while back < mesh.len()` of greedy2d in greedy.rs and, when
\* it holds, one pass through the body.
greedy2d_ref(mesh, dest, back, lead, build) ==
    IF ~(back < MeshLen(mesh)) THEN Outcome("exit", mesh, dest, back, lead, {})
    ELSE IF lead = MeshLen(mesh) THEN Emit(mesh, dest, back, lead, {dest, back})
    ELSE LET used == {back, lead} IN
         Unchecked(mesh, dest, back, lead, used,
            LET b     == mesh[back]
                l     == mesh[lead]
                \* b & 0x00F8_0000_FFFF_FFFF | xm: colour and width, x all ones
                bcwx0 == <<b.color, b.width % FieldModulus>>
                bh    == b.height % FieldModulus
                bx0   == b.x0 % FieldModulus
                by0   == b.y0 % FieldModulus
                lcwx0 == <<l.color, l.width % FieldModulus>>
                lx0   == l.x0 % FieldModulus
                ly0   == l.y0 % FieldModulus
                dy    == DeltaY(ly0, by0, bh, U64Modulus, build)
                taller == extend_quad_ref_h(b, build)
            IN  IF dy.panic THEN Outcome("panicked", mesh, dest, back, lead, used)
                ELSE IF dy.value = 0 THEN Outcome("loop", mesh, dest, back, lead + 1, used)
                ELSE IF dy.value > 1 THEN Emit(mesh, dest, back, lead, used \cup {dest})
                ELSE IF bx0 > lx0 THEN Outcome("loop", mesh, dest, back, lead + 1, used)
                ELSE IF bcwx0 = lcwx0
                THEN IF taller.panic
                     THEN Outcome("panicked", mesh, dest, back, lead, used)
                     ELSE Outcome("loop", [mesh EXCEPT ![lead] = taller.value],
                                  dest, back + 1, lead + 1, used)
                ELSE Emit(mesh, dest, back, lead, used \cup {dest}))

\* mesh.truncate(dest): the first dest quads, or all of them when there are
\* no more than dest.
truncate(mesh, dest) ==
    [i \in {j \in DOMAIN mesh : j < dest} |-> mesh[i]]

\* render of main.rs: the (x, y, colour) triples it writes to the screen,
\* screen[y][x] = (color, kind), for the quads of mesh.
render_main(mesh) ==
    UNION {{<<x, y, mesh[i].color>> :
                x \in mesh[i].x0 .. mesh[i].x0 + mesh[i].width,
                y \in mesh[i].y0 .. mesh[i].y0 + mesh[i].height} : i \in DOMAIN mesh}

\* render of greedy.rs: the same from the 5-bit fields of each QuadRef.
render_ref(mesh) ==
    UNION {LET x0     == mesh[i].x0 % FieldModulus
               y0     == mesh[i].y0 % FieldModulus
               width  == mesh[i].width % FieldModulus
               height == mesh[i].height % FieldModulus
           IN  {<<x, y, mesh[i].color>> : x \in x0 .. x0 + width, y \in y0 .. y0 + height}
           : i \in DOMAIN mesh}

\* render of the given source file.
render(f, mesh) == IF f = "main.rs" THEN render_main(mesh) ELSE render_ref(mesh)

\* One step of greedy2d of the given source file.
greedy2d(file, mesh, dest, back, lead, build) ==
    IF file = "main.rs" THEN greedy2d_main(mesh, dest, back, lead, build)
    ELSE greedy2d_ref(mesh, dest, back, lead, build)

(***************************************************************************)
(* State.                                                                  *)
(***************************************************************************)
VARIABLES
    pc,          \* "start" before Buddy::new, "ready", "panicked"
    stride,      \* Buddy::STRIDE = size_of::<T>()
    min_order,   \* Buddy.min_order
    alloc_tree,  \* Buddy.alloc_tree
    storage,     \* the bytes of Buddy.buffer
    live,        \* bag of the node indices of the handles the program holds
    call,        \* the last operation and its arguments
    ret,         \* what it returned
    io,          \* the write_buffer calls the last operation issued
    run,         \* calls made so far in a run of minimum-size allocations
    other_min_order,  \* a second allocator, the `other` of check_is_same
    other_tree,
    other_live,
    file,        \* the source file whose greedy2d runs: "main.rs" or "greedy.rs"
    input,       \* the mesh greedy2d was called with
    mesh,        \* the vector greedy2d works on
    dest,        \* its three cursors
    back,
    lead,
    at,          \* "idle", "loop" (at the head of the loop), "done", "panicked", "ub"
    unchecked    \* indices the last pass used with get_unchecked(_mut)

self_vars == <<stride, min_order, alloc_tree, storage, live>>
other_vars == <<other_min_order, other_tree, other_live>>
buddy_vars == <<pc, self_vars, call, ret, io, run, other_vars>>
greedy_vars == <<file, input, mesh, dest, back, lead, at, unchecked>>
vars == <<buddy_vars, greedy_vars>>

Capacities == {0, 1, 2, 3, 4, 8}
MinOrders == (0 .. MaxMinOrder) \cup {UsizeBits, U8Modulus - 1}
\* Lengths passed to alloc; the last one is beyond half the word.
Lens == {0, 1, 2, 3, 4, 8, 9, 2 ^ (UsizeBits - 1) + 1}
\* Element sizes, capacities and payloads of the specifications with storage.
Strides == {1, 2}
SmallCapacities == {1, 2, 4}
SmallMinOrders == {0, 1}
DataLens == {0, 2, 3, 5}
PairLens == {1, 2, 3}
DataValues == {1}

None == [kind |-> "none"]
Some(h) == [kind |-> "some", handle |-> h]
Unit == [kind |-> "unit"]
Bool(b) == [kind |-> "bool", value |-> b]
Panicked == [kind |-> "panic"]

\* No greedy2d is running.
GreedyIdle ==
    /\ file = "main.rs"
    /\ input = <<>>
    /\ mesh = <<>>
    /\ dest = 0
    /\ back = 0
    /\ lead = 0
    /\ at = "idle"
    /\ unchecked = {}

BuddyStart(strides) ==
    /\ pc = "start"
    /\ stride \in strides
    /\ min_order = 0
    /\ alloc_tree = NoTree
    /\ storage = <<>>
    /\ live = EmptyBag
    /\ call = [op |-> "none"]
    /\ ret = Unit
    /\ io = <<>>
    /\ run = 0
    /\ other_min_order = 0
    /\ other_tree = NoTree
    /\ other_live = EmptyBag

InitWith(strides) == BuddyStart(strides) /\ GreedyIdle

\* let b = Buddy::<T>::new(gfx, cap_arg, m)
New(cap_arg, m, build) ==
    /\ pc = "start"
    /\ LET r == new(cap_arg, m, build) IN
        /\ pc' = IF r.panic THEN "panicked" ELSE "ready"
        /\ alloc_tree' = r.tree
        /\ storage' = IF r.panic THEN <<>>
                      ELSE [i \in 0 .. stride * next_power_of_two(cap_arg) - 1 |-> 0]
        /\ ret' = IF r.panic THEN Panicked ELSE Unit
    /\ min_order' = m
    /\ call' = [op |-> "new", capacity |-> cap_arg, min_order |-> m, build |-> build]
    /\ io' = <<>>
    /\ UNCHANGED <<stride, live, run, other_vars, greedy_vars>>

\* The effect of b.alloc(len) on the allocator and on what the program holds.
AllocCall(len) ==
    /\ pc = "ready"
    /\ LET r == alloc(alloc_tree, min_order, len) IN
        /\ pc' = IF r.panic THEN "panicked" ELSE "ready"
        /\ alloc_tree' = r.tree
        /\ live' = IF r.handle # 0 THEN live (+) SetToBag({r.handle}) ELSE live
        /\ ret' = IF r.panic THEN Panicked
                  ELSE IF r.handle = 0 THEN None ELSE Some(r.handle)
    /\ call' = [op |-> "alloc", len |-> len]
    /\ io' = <<>>
    /\ UNCHANGED <<stride, min_order, storage, other_vars, greedy_vars>>

\* let h = b.alloc(len), while the program holds fewer than MaxLive handles
Alloc(len) ==
    /\ pc = "ready"
    /\ alloc(alloc_tree, min_order, len).handle # 0 => BagCardinality(live) < MaxLive
    /\ AllocCall(len)
    /\ UNCHANGED run

\* b.alloc(len) with len <= 2^min_order, as one more call of a run that
\* started on the fresh allocator
AllocSmall(len) ==
    /\ pc = "ready"
    /\ len <= 2 ^ min_order
    /\ run < MaxRun
    /\ AllocCall(len)
    /\ run' = run + 1

\* b.free(h)
Free(h) ==
    /\ pc = "ready"
    /\ BagIn(h, live)
    /\ alloc_tree' = free(alloc_tree, min_order, h)
    /\ live' = live (-) SetToBag({h})
    /\ call' = [op |-> "free", handle |-> h]
    /\ ret' = Unit
    /\ io' = <<>>
    /\ UNCHANGED <<pc, stride, min_order, storage, run, other_vars, greedy_vars>>

\* b.write(gfx, &h, data), data being n elements that fit the block of h
Write(h, n, value) ==
    /\ pc = "ready"
    /\ BagIn(h, live)
    /\ n <= 2 ^ (max_order(alloc_tree, min_order) - ilog2(h))
    /\ LET offset == write_offset(alloc_tree, min_order, h)
           blob   == cast_slice(n, stride, value)
       IN  /\ storage' = write_buffer(storage, offset, blob)
           /\ io' = <<[offset |-> offset, len |-> Len(blob)]>>
    /\ call' = [op |-> "write", handle |-> h, len |-> n, value |-> value]
    /\ ret' = Unit
    /\ UNCHANGED <<pc, stride, min_order, alloc_tree, live, run, other_vars, greedy_vars>>

\* load that copies the payload to the start of the buffer before it
\* allocates.
load_write_first(tree, m, buffer, bytes, n, value) ==
    LET r      == alloc(tree, m, n)
        blob   == cast_slice(n, bytes, value)
        staged == write_buffer(buffer, 0, blob)
    IN  IF r.handle = 0
        THEN [handle |-> 0, tree |-> r.tree, buffer |-> staged,
              io |-> <<[offset |-> 0, len |-> Len(blob)]>>]
        ELSE LET offset == write_offset(r.tree, m, r.handle)
             IN  [handle |-> r.handle, tree |-> r.tree,
                  buffer |-> write_buffer(staged, offset, blob),
                  io |-> <<[offset |-> offset, len |-> Len(blob)]>>]

\* Buddy::load: the allocation, then the write when it gave a handle.
load(tree, m, buffer, bytes, n, value) ==
    LET r == alloc(tree, m, n) IN
    IF r.handle = 0
    THEN [handle |-> 0, tree |-> r.tree, buffer |-> buffer, io |-> <<>>]
    ELSE LET offset == write_offset(r.tree, m, r.handle)
             blob   == cast_slice(n, bytes, value)
         IN  [handle |-> r.handle, tree |-> r.tree,
              buffer |-> write_buffer(buffer, offset, blob),
              io |-> <<[offset |-> offset, len |-> Len(blob)]>>]

\* let h = b.load(gfx, data), data being n elements
Load(n, value) ==
    /\ pc = "ready"
    /\ LET r == load(alloc_tree, min_order, storage, stride, n, value) IN
        /\ r.handle # 0 => BagCardinality(live) < MaxLive
        /\ alloc_tree' = r.tree
        /\ storage' = r.buffer
        /\ io' = r.io
        /\ live' = IF r.handle # 0 THEN live (+) SetToBag({r.handle}) ELSE live
        /\ ret' = IF r.handle = 0 THEN None ELSE Some(r.handle)
    /\ call' = [op |-> "load", len |-> n, value |-> value]
    /\ UNCHANGED <<pc, stride, min_order, run, other_vars, greedy_vars>>

\* let o = Buddy::<T>::new(gfx, cap_arg, m): the second allocator
OtherNew(cap_arg, m, build) ==
    /\ pc = "ready"
    /\ other_tree = NoTree
    /\ LET r == new(cap_arg, m, build) IN
        /\ pc' = IF r.panic THEN "panicked" ELSE "ready"
        /\ other_tree' = r.tree
        /\ ret' = IF r.panic THEN Panicked ELSE Unit
    /\ other_min_order' = m
    /\ call' = [op |-> "other.new", capacity |-> cap_arg, min_order |-> m, build |-> build]
    /\ io' = <<>>
    /\ UNCHANGED <<self_vars, run, other_live, greedy_vars>>

\* let h = o.alloc(len)
OtherAlloc(len) ==
    /\ pc = "ready"
    /\ other_tree # NoTree
    /\ LET r == alloc(other_tree, other_min_order, len) IN
        /\ r.handle # 0 => BagCardinality(other_live) < MaxLive
        /\ pc' = IF r.panic THEN "panicked" ELSE "ready"
        /\ other_tree' = r.tree
        /\ other_live' = IF r.handle # 0 THEN other_live (+) SetToBag({r.handle})
                         ELSE other_live
        /\ ret' = IF r.panic THEN Panicked
                  ELSE IF r.handle = 0 THEN None ELSE Some(r.handle)
    /\ call' = [op |-> "other.alloc", len |-> len]
    /\ io' = <<>>
    /\ UNCHANGED <<self_vars, run, other_min_order, greedy_vars>>

\* o.free(h)
OtherFree(h) ==
    /\ pc = "ready"
    /\ BagIn(h, other_live)
    /\ other_tree' = free(other_tree, other_min_order, h)
    /\ other_live' = other_live (-) SetToBag({h})
    /\ call' = [op |-> "other.free", handle |-> h]
    /\ ret' = Unit
    /\ io' = <<>>
    /\ UNCHANGED <<pc, self_vars, run, other_min_order, greedy_vars>>

\* b.check_is_same(&o), or o.check_is_same(&b) when swapped
CheckIsSame(swapped) ==
    /\ pc = "ready"
    /\ other_tree # NoTree
    /\ LET r == IF swapped THEN check_is_same(other_tree, alloc_tree)
                ELSE check_is_same(alloc_tree, other_tree)
       IN  /\ pc' = IF r = "panic" THEN "panicked" ELSE "ready"
           /\ ret' = IF r = "panic" THEN Panicked ELSE Bool(r = "true")
    /\ call' = [op |-> "check_is_same", swapped |-> swapped]
    /\ io' = <<>>
    /\ UNCHANGED <<self_vars, run, other_vars, greedy_vars>>

(***************************************************************************)
(* Specifications.                                                         *)
(***************************************************************************)
\* Allocation only: new, alloc and free never read STRIDE past the size of
\* the buffer, so one element size is explored.
Init == InitWith({1})

Next ==
    \/ \E c \in Capacities, m \in MinOrders, b \in Builds : New(c, m, b)
    \/ \E len \in Lens : Alloc(len)
    \/ \E h \in BagToSet(live) : Free(h)

Spec == Init /\ [][Next]_vars

\* Runs of minimum-size allocations on a fresh allocator.
NextRun ==
    \/ \E c \in Capacities, m \in MinOrders, b \in Builds : New(c, m, b)
    \/ \E len \in Lens : AllocSmall(len)

SpecRun == Init /\ [][NextRun]_vars

\* Allocation and storage, on the small allocators.
InitIO == InitWith(Strides)

NextIO ==
    \/ \E c \in SmallCapacities, m \in SmallMinOrders, b \in Builds : New(c, m, b)
    \/ \E len \in DataLens : Alloc(len)
    \/ \E h \in BagToSet(live) : Free(h)
    \/ \E h \in BagToSet(live), n \in DataLens, v \in DataValues : Write(h, n, v)
    \/ \E n \in DataLens, v \in DataValues : Load(n, v)

SpecIO == InitIO /\ [][NextIO]_vars

\* Two allocators and their comparison.
NextPair ==
    \/ \E c \in SmallCapacities, m \in SmallMinOrders, b \in Builds : New(c, m, b)
    \/ \E c \in SmallCapacities, m \in SmallMinOrders, b \in Builds : OtherNew(c, m, b)
    \/ \E len \in PairLens : Alloc(len)
    \/ \E h \in BagToSet(live) : Free(h)
    \/ \E len \in PairLens : OtherAlloc(len)
    \/ \E h \in BagToSet(other_live) : OtherFree(h)
    \/ \E s \in BOOLEAN : CheckIsSame(s)

SpecPair == Init /\ [][NextPair]_vars

\* greedy2d of either source file, on every mesh of at most MaxQuads quads
\* of height 0 that is sorted by row and then by column, and on one tall
\* column.
Colors == {1, 2}
Widths == {0, 1}
InputQuads ==
    {Quad(c, x, y, w, 0) : c \in Colors, x \in 0 .. MaxCol, y \in 0 .. MaxRow, w \in Widths}

\* sorted by row, and by column within a row
IsSorted(m) ==
    \A i, j \in DOMAIN m :
        i < j => \/ m[i].y0 < m[j].y0
                 \/ m[i].y0 = m[j].y0 /\ m[i].x0 <= m[j].x0

SortedMeshes ==
    UNION {{m \in [0 .. n - 1 -> InputQuads] : IsSorted(m)} : n \in 0 .. MaxQuads}

\* One column of equal one-row quads, one per row: a row more than the u8
\* height of main.rs counts, and all the rows the 5-bit y of greedy.rs has.
TallColumn(f) ==
    IF f = "main.rs"
    THEN [i \in 0 .. U8Modulus |-> Quad(1, 0, i, 0, 0)]
    ELSE [i \in 0 .. FieldMask |-> quad_ref(1, 0, i, 0, 0)]

InitGreedy ==
    /\ BuddyStart({1})
    /\ file \in {"main.rs", "greedy.rs"}
    /\ input \in SortedMeshes \cup {TallColumn(file)}
    /\ mesh = input
    /\ dest = 0
    /\ back = 0
    /\ lead = 0
    /\ at = "loop"
    /\ unchecked = {}

\* One pass through the loop that stays in greedy2d (or ends in a panic or
\* in undefined behaviour)
Iterate ==
    /\ at = "loop"
    /\ \E build \in Builds :
          LET o == greedy2d(file, mesh, dest, back, lead, build) IN
          /\ o.at # "exit"
          /\ mesh' = o.mesh
          /\ dest' = o.dest
          /\ back' = o.back
          /\ lead' = o.lead
          /\ at' = o.at
          /\ unchecked' = o.unchecked
    /\ UNCHANGED <<file, input, buddy_vars>>

\* The loop is left and mesh.truncate(dest) runs
Finish ==
    /\ at = "loop"
    /\ \E build \in Builds :
          LET o == greedy2d(file, mesh, dest, back, lead, build) IN
          /\ o.at = "exit"
          /\ mesh' = truncate(o.mesh, o.dest)
          /\ at' = "done"
          /\ unchecked' = o.unchecked
    /\ UNCHANGED <<file, input, dest, back, lead, buddy_vars>>

NextGreedy ==
    \/ Iterate
    \/ Finish

SpecGreedy == InitGreedy /\ [][NextGreedy]_vars

(***************************************************************************)
(* Claims.                                                                 *)
(***************************************************************************)
\* The tree of a freshly constructed allocator of the capacity and min_order
\* of the current one.
FreshTree == new(capacity(alloc_tree, min_order), min_order, "release").tree

\* C1: whenever every handle handed out has been freed (the program holds
\* none), alloc_tree is element-wise the tree of a freshly constructed
\* allocator of the same capacity and min_order.
C1_AllFreedIsPristine ==
    (pc = "ready" /\ live = EmptyBag) => alloc_tree = FreshTree

\* C1 witness: the last of several handles has just been freed.
C1_Witness ==
    /\ pc = "ready"
    /\ call.op = "free"
    /\ live = EmptyBag
    /\ TreeLen(alloc_tree) = 16
    /\ alloc_tree = FreshTree

(***************************************************************************)
(* The quantities the claims speak of, defined from their wording.         *)
(***************************************************************************)
\* ceil(log2(n)) for n >= 1
CeilLog2(n) == CHOOSE k \in 0 .. UsizeBits : 2 ^ k >= n /\ \A j \in 0 .. k - 1 : 2 ^ j < n

\* floor(log2(i)): the depth of node i
Depth(i) == CHOOSE d \in 0 .. UsizeBits : 2 ^ d <= i /\ i < 2 ^ (d + 1)

\* log2 of the capacity of the allocator
MaxOrder == CeilLog2(capacity(alloc_tree, min_order))

\* order of node i, and its position among the nodes of its depth
OrderOf(i) == MaxOrder - Depth(i)
SiblingIndex(i) == i - 2 ^ Depth(i)

\* max(ceil(log2(len)), min_order) = ceil(log2(max(len, 2^min_order)))
RequestedOrder(len) == CeilLog2(Max(len, 2 ^ min_order))

\* The byte range of a handle: from the offset write computes for it,
\* 2^order * stride bytes.
RangeOf(h) ==
    LET start == write_offset(alloc_tree, min_order, h)
    IN  start .. start + 2 ^ OrderOf(h) * stride - 1

\* Pairs of handles held at the same time: two different nodes, or one node
\* held twice.
HeldTogether(h1, h2) ==
    /\ BagIn(h1, live) /\ BagIn(h2, live)
    /\ h1 # h2 \/ CopiesIn(h1, live) >= 2

\* C2: any two handles that are live at the same time address disjoint byte
\* ranges of storage.
C2_LiveRangesDisjoint ==
    pc = "ready" =>
        \A h1, h2 \in BagToSet(live) :
            HeldTogether(h1, h2) => RangeOf(h1) \cap RangeOf(h2) = {}

\* The handle a write or a successful load passed to write_buffer.
WrittenHandle == IF call.op = "write" THEN call.handle ELSE ret.handle

\* C3: the offset write passes to the storage backend for the handle at node
\* i is k * 2^order * stride bytes, k the sibling index of i.
C3_WriteOffsetInBytes ==
    (pc = "ready" /\ call.op \in {"write", "load"} /\ io # <<>>) =>
        io[1].offset = SiblingIndex(WrittenHandle) * 2 ^ OrderOf(WrittenHandle) * stride

\* capacity >> min_order
MinBlocks == capacity(alloc_tree, min_order) \div 2 ^ min_order

\* C4: in a run of allocations of at most 2^min_order elements on a fresh
\* allocator, the first capacity >> min_order calls return a handle and the
\* next call returns the empty result.
C4_ExactlyMinBlocksSucceed ==
    (pc = "ready" /\ run >= 1 /\ run <= MinBlocks + 1) =>
        /\ call.op = "alloc"
        /\ run <= MinBlocks => ret.kind = "some"
        /\ run = MinBlocks + 1 => ret = None

\* C4 witness: the ninth allocation on a capacity-8, min_order-0 allocator
\* has failed.
C4_Witness ==
    /\ pc = "ready"
    /\ MinBlocks = 8
    /\ run = 9
    /\ ret = None
    /\ BagCardinality(live) = 8

\* C5: a handle returned by alloc(len) names a node at depth
\* max_order - target_order, a block of 2^ceil(log2(max(len, 2^min_order)))
\* elements.
C5_BlockOfRequestedOrder ==
    (pc = "ready" /\ call.op = "alloc" /\ ret.kind = "some") =>
        /\ Depth(ret.handle) = MaxOrder - RequestedOrder(call.len)
        /\ 2 ^ OrderOf(ret.handle) = 2 ^ CeilLog2(Max(call.len, 2 ^ min_order))

\* C5 witness: a request that is no power of two was rounded up, on a tree
\* that is no longer fresh.
C5_Witness ==
    /\ pc = "ready"
    /\ call.op = "alloc" /\ call.len = 3
    /\ ret.kind = "some" /\ ret.handle = 3
    /\ BagCardinality(live) = 3

\* A step that is a call of alloc.
AllocStep == pc = "ready" /\ call'.op = "alloc"

\* C6: alloc(len) called when the root's value is below
\* max(ceil(log2(len)), min_order) returns the empty result and leaves
\* alloc_tree as it was.
C6_TooLargeReturnsNone ==
    [][(AllocStep /\ alloc_tree[1] < RequestedOrder(call'.len)) =>
        (ret' = None /\ alloc_tree' = alloc_tree)]_vars

\* C6 for the lengths whose next power of two fits the word: the part of the
\* claim the code keeps.
C6_WithinHalfWord ==
    [][(AllocStep /\ alloc_tree[1] < RequestedOrder(call'.len)
            /\ call'.len <= 2 ^ (UsizeBits - 1)) =>
        (ret' = None /\ alloc_tree' = alloc_tree)]_vars

\* A step that is a call of load.
LoadStep == pc = "ready" /\ call'.op = "load"

\* C7: a load whose allocation fails returns the empty result and changes
\* neither alloc_tree nor storage; storage is written only with a handle
\* obtained.
C7_LoadAllOrNothing ==
    [][LoadStep =>
        /\ alloc(alloc_tree, min_order, call'.len).handle = 0 =>
              /\ ret' = None
              /\ alloc_tree' = alloc_tree
              /\ storage' = storage
              /\ io' = <<>>
              /\ live' = live
        /\ (storage' # storage \/ io' # <<>>) =>
              /\ ret'.kind = "some"
              /\ BagIn(ret'.handle, live')
              /\ alloc_tree'[ret'.handle] = USED]_vars

\* C7 witness: a load has failed on an allocator whose storage holds data
\* written before.
C7_Witness ==
    /\ pc = "ready"
    /\ call.op = "load"
    /\ ret = None
    /\ io = <<>>
    /\ \E i \in DOMAIN storage : storage[i] # 0
    /\ live # EmptyBag

\* C8: a construction with min_order above log2 of the capacity rounded up
\* to a power of two aborts, and gives no allocator.
C8_DegenerateConstructionAborts ==
    /\ (call.op = "new" /\ call.min_order > CeilLog2(Max(call.capacity, 1))) =>
          (pc = "panicked" /\ alloc_tree = NoTree /\ storage = <<>>)
    /\ pc = "ready" => min_order <= MaxOrder

\* C8 witness: a release build, where the u8 subtraction wraps, has aborted
\* the construction with min_order = max_order + 1.
C8_Witness ==
    /\ call.op = "new"
    /\ call.build = "release"
    /\ call.capacity = 8 /\ call.min_order = 4
    /\ pc = "panicked"

\* C9: check_is_same returns true exactly when the two trees are
\* element-wise equal, whatever the two allocators' sizes.
C9_SameIffTreesEqual ==
    call.op = "check_is_same" =>
        LET a == IF call.swapped THEN other_tree ELSE alloc_tree
            b == IF call.swapped THEN alloc_tree ELSE other_tree
        IN  ret = Bool(a = b)

\* The ancestors of node h, h excluded.
Ancestors(h) == {h \div 2 ^ j : j \in 1 .. Depth(h)}

\* The child of p on the way to h.
ChildToward(p, h) == h \div 2 ^ (Depth(h) - Depth(p) - 1)

\* The tree of the capacity-8, min_order-0 allocator after A = alloc(1),
\* B = alloc(2) and free(A).
ScenarioTree ==
    LET a == alloc(new(8, 0, "release").tree, 0, 1)
        b == alloc(a.tree, 0, 2)
    IN  free(b.tree, 0, a.handle)

\* C10: wherever both children of a node of the descent have value >=
\* target_order the left one is taken; and after A = alloc(1), B = alloc(2),
\* free(A) on the capacity-8, min_order-0 allocator, alloc(1) returns the
\* block at offset 0.
C10_LeftChildOnTie ==
    [][AllocStep =>
        /\ ret'.kind = "some" =>
              \A p \in Ancestors(ret'.handle) :
                  LET target == RequestedOrder(call'.len) IN
                  (alloc_tree[2 * p] >= target /\ alloc_tree[2 * p + 1] >= target)
                      => ChildToward(p, ret'.handle) = 2 * p
        /\ (alloc_tree = ScenarioTree /\ min_order = 0 /\ call'.len = 1) =>
              /\ ret'.kind = "some"
              /\ write_offset(alloc_tree', min_order, ret'.handle) = 0
              /\ ret'.handle = 8]_vars

\* C10 witness: the scenario's last alloc(1) has returned node 8 while B
\* (node 5) is live.
C10_Witness ==
    /\ pc = "ready"
    /\ call.op = "alloc" /\ call.len = 1
    /\ ret = Some(8)
    /\ live = SetToBag({5, 8})
    /\ alloc_tree = alloc(ScenarioTree, 0, 1).tree

(***************************************************************************)
(* Free blocks, as the claims about the tree's values speak of them.       *)
(***************************************************************************)
\* The nodes of the tree (index 0 is not a node)
Nodes == 1 .. TreeLen(alloc_tree) - 1

\* The internal nodes: those with two children in the tree
InternalNodes == {i \in Nodes : 2 * i + 1 < TreeLen(alloc_tree)}

\* The block of node j lies in the block of node i: i is j or an ancestor
\* of j.
Covers(i, j) == i = j \/ i \in Ancestors(j)

\* A wholly free block: an aligned block that overlaps no live handle.
WhollyFree(i) ==
    \A h \in BagToSet(live) : ~Covers(i, h) /\ ~Covers(h, i)

\* The orders of the wholly free blocks in the subtree of node i.
FreeOrdersBelow(i) == {OrderOf(j) : j \in {k \in Nodes : Covers(i, k) /\ WhollyFree(k)}}

\* A stored value that is an order.
IsValidOrder(v) == v \in 0 .. MaxOrder

\* C11: for every node whose stored value v is a valid order, v is the order
\* of the largest wholly free block in that node's subtree; in particular
\* the root's value is the order of the largest block that can be
\* allocated.  Nodes inside a live handle's block keep the values they had
\* when the block was claimed and are left out here: the statement is read
\* for the root and every other node that is not below a live handle.
C11_ValueIsLargestFreeOrder ==
    pc = "ready" =>
        \A i \in Nodes :
            (IsValidOrder(alloc_tree[i]) /\ \A h \in BagToSet(live) : ~Covers(h, i)) =>
                /\ FreeOrdersBelow(i) # {}
                /\ \A o \in FreeOrdersBelow(i) : o <= alloc_tree[i]
                /\ alloc_tree[i] \in FreeOrdersBelow(i)

\* C12: every node alloc steps into on its descent, the node it claims
\* included, holds a value >= target_order when it is chosen, so the claimed
\* node was neither USED already nor holding less than the requested order.
C12_DescentStaysOnSuitableNodes ==
    [][(AllocStep /\ ret'.kind = "some") =>
          LET target == RequestedOrder(call'.len) IN
          /\ \A p \in Ancestors(ret'.handle) \cup {ret'.handle} :
                 alloc_tree[p] >= target
          /\ alloc_tree[ret'.handle] # USED]_vars

\* max(left, right), plus one when the two are equal
ParentValue(left, right) == Max(left, right) + (IF left = right THEN 1 ELSE 0)

\* C13: every internal node that is not itself marked USED holds
\* max(left, right) + (1 if left = right else 0) of its two children.
C13_ParentChildFormula ==
    pc = "ready" =>
        \A i \in InternalNodes :
            alloc_tree[i] # USED =>
                alloc_tree[i] = ParentValue(alloc_tree[2 * i], alloc_tree[2 * i + 1])

\* C14: every entry of alloc_tree at index >= 1 is a valid order in
\* 0 ..= max_order or exactly USED.
C14_OrderOrUsed ==
    pc = "ready" =>
        \A i \in Nodes : IsValidOrder(alloc_tree[i]) \/ alloc_tree[i] = USED

\* The tree after recomputing every ancestor of block, up to the root, from
\* its two children.
RECURSIVE RecomputeToRoot(_, _)
RecomputeToRoot(tree, block) ==
    IF block <= 1 THEN tree
    ELSE LET parent == block \div 2
             value  == ParentValue(tree[2 * parent], tree[2 * parent + 1])
         IN  RecomputeToRoot([tree EXCEPT ![parent] = value], parent)

\* A step that frees a handle
FreeStep == pc = "ready" /\ call'.op = "free"

\* C15: the early stop of update_parents is sound: after alloc or free has
\* changed one node, the tree left by stopping at the first ancestor whose
\* recomputed value equals its stored value is the tree that recomputing
\* every ancestor up to the root gives.
C15_EarlyStopIsSound ==
    [][/\ (AllocStep /\ ret'.kind = "some") =>
            alloc_tree' =
                RecomputeToRoot([alloc_tree EXCEPT ![ret'.handle] = USED], ret'.handle)
       /\ FreeStep =>
            alloc_tree' =
                RecomputeToRoot([alloc_tree EXCEPT ![call'.handle] = OrderOf(call'.handle)],
                                call'.handle)]_vars

\* C16: alloc never fails spuriously: whenever alloc(len) returns the empty
\* result, no aligned block of target_order is wholly free (every such block
\* overlaps a live handle).
C16_NoSpuriousFailure ==
    [][(AllocStep /\ ret' = None) =>
          \A j \in Nodes :
              OrderOf(j) = RequestedOrder(call'.len) => ~WhollyFree(j)]_vars

\* C16 witness: an alloc has returned the empty result on an allocator that
\* still has a free block of a smaller order, with two handles live.
C16_Witness ==
    /\ pc = "ready"
    /\ call.op = "alloc" /\ ret = None
    /\ BagCardinality(live) = 2
    /\ RequestedOrder(call.len) \in 1 .. MaxOrder
    /\ \E j \in Nodes : WhollyFree(j)
    /\ \A j \in Nodes : OrderOf(j) = RequestedOrder(call.len) => ~WhollyFree(j)

\* The capacity argument of the last new, rounded up to a power of two
RoundedCapacity == 2 ^ CeilLog2(Max(call.capacity, 1))

\* C17: new initialises every tree entry: for capacity C (rounded up to a
\* power of two) and min_order m <= max_order the tree has 2 * (C >> m)
\* entries, index 0 holds the reserved value, every node i >= 1 holds
\* max_order - floor(log2(i)), no entry is left unwritten, and the fresh tree
\* satisfies the parent/child value formula at every internal node.
C17_NewInitialisesEveryEntry ==
    (pc # "start" /\ call.op = "new" /\ call.min_order <= CeilLog2(RoundedCapacity)) =>
        /\ pc = "ready"
        /\ TreeLen(alloc_tree) = 2 * (RoundedCapacity \div 2 ^ call.min_order)
        /\ alloc_tree[0] = Reserved
        /\ \A i \in Nodes : alloc_tree[i] = CeilLog2(RoundedCapacity) - Depth(i)
        /\ \A i \in DOMAIN alloc_tree : alloc_tree[i] # Uninit
        /\ \A i \in InternalNodes :
               alloc_tree[i] = ParentValue(alloc_tree[2 * i], alloc_tree[2 * i + 1])

\* C17 witness: new(3, 1) has built the four-entry tree of capacity 4.
C17_Witness ==
    /\ pc = "ready"
    /\ call.op = "new" /\ call.capacity = 3 /\ call.min_order = 1
    /\ alloc_tree = (0 :> Reserved) @@ (1 :> 2) @@ (2 :> 1) @@ (3 :> 1)

\* The values an i8 cell holds
I8Range == -128 .. 127

\* C18: each node's stored value is at most that node's own order,
\* max_order - floor(log2(index)); in particular the root's value never
\* exceeds max_order, and the +1 for equal siblings never takes a value out
\* of the range of the i8 cell.
C18_ValueAtMostOwnOrder ==
    pc = "ready" =>
        /\ \A i \in Nodes : alloc_tree[i] <= OrderOf(i) /\ alloc_tree[i] \in I8Range
        /\ alloc_tree[1] <= MaxOrder

\* C18 witness: a free has merged two equal siblings into a parent that now
\* holds its full order, while another handle is live.
C18_Witness ==
    /\ pc = "ready"
    /\ call.op = "free"
    /\ live # EmptyBag
    /\ \E i \in InternalNodes :
           /\ i \in Ancestors(call.handle)
           /\ alloc_tree[i] = OrderOf(i)
           /\ alloc_tree[2 * i] = alloc_tree[2 * i + 1]

\* C19: no node is handed out while it is still in use: the node indices of
\* the live handles are pairwise distinct, and no live handle's node is an
\* ancestor or a descendant of another live handle's node.
C19_LiveNodesUnrelated ==
    pc = "ready" =>
        /\ \A h \in BagToSet(live) : CopiesIn(h, live) = 1
        /\ \A h1, h2 \in BagToSet(live) : h1 # h2 => h1 \notin Ancestors(h2)

\* C20: in greedy2d, for any input mesh whose quads all have height 0 and
\* are sorted by row and then by column, dest <= back <= lead <= mesh.len()
\* at the start of every loop iteration, every unchecked element access uses
\* an index smaller than mesh.len(), and the loop terminates (every pass
\* advances back or lead, which mesh.len() bounds) with dest <= mesh.len()
\* before the truncate.
C20_CursorsInOrder ==
    [][at = "loop" =>
          /\ dest <= back /\ back <= lead /\ lead <= MeshLen(mesh)
          /\ at' \in {"loop", "done"}
          /\ \A i \in unchecked' : i < MeshLen(mesh)
          /\ at' = "loop" => back' + lead' > back + lead
          /\ at' = "done" => dest' <= MeshLen(mesh) /\ MeshLen(mesh') = dest']_vars

\* What holds of C20 on every input: the cursors are in order at the head of
\* every pass, every unchecked index is within the vector, every pass that
\* returns to the head of the loop has advanced back or lead, and the
\* truncate is reached with dest <= mesh.len() whenever no arithmetic
\* overflow panics.
C20_CursorsAndAccesses ==
    [][at = "loop" =>
          /\ dest <= back /\ back <= lead /\ lead <= MeshLen(mesh)
          /\ at' # "ub"
          /\ \A i \in unchecked' : i < MeshLen(mesh)
          /\ at' = "loop" => back' + lead' > back + lead
          /\ at' = "done" => dest' <= MeshLen(mesh) /\ MeshLen(mesh') = dest']_vars

\* The cells a quad covers
CellsOf(q) == {<<x, y>> : x \in q.x0 .. q.x0 + q.width, y \in q.y0 .. q.y0 + q.height}

\* A mesh of pairwise non-overlapping quads
NonOverlapping(m) ==
    \A i, j \in DOMAIN m : i # j => CellsOf(m[i]) \cap CellsOf(m[j]) = {}

\* C21: greedy2d preserves the rendered picture: for any input mesh of
\* pairwise non-overlapping height-0 quads sorted by row and then by column,
\* the set of (cell, colour) pairs covered by the output mesh equals the set
\* covered by the input mesh.
C21_PicturePreserved ==
    (at = "done" /\ NonOverlapping(input)) =>
        render(file, mesh) = render(file, input)

=============================================================================
